---- MODULE Spec2Model ----
(***************************************************************************)
(* Model of src/src/helpfun.c (iLBC helper functions): LSF_check, sort_sq, *)
(* vq, SplitVQ and levdurb.                                                *)
(*                                                                         *)
(* Arrays are functions over 0-based index ranges, as in the C source.     *)
(* LSF values are exact multiples of 0.0005 rad, so that eps, eps2, minlsf *)
(* and maxlsf are the integers 78, 39, 20 and 6280; float rounding is not  *)
(* modelled (arithmetic is exact).                                         *)
(***************************************************************************)
EXTENDS Integers, Sequences, FiniteSets, TLC

VARIABLES pc,
          \* LSF_check
          lsf, dim, NoAn, n, m, k, change, lsf0, fired, last,
          \* sort_sq
          x, cb, cb_size, under, xq, index, reads, xq1, index1,
          \* vq
          X, CB, n_cb, vdim, Xq, vindex,
          \* SplitVQ
          sX, sCB, nsplit, sdim, cbsize, qX, sindex, si, X_pos, cb_pos,
          \* levdurb
          r, order, la, lk, alpha, lm, r0

lsfVars == <<lsf, dim, NoAn, n, m, k, change, lsf0, fired, last>>
sqVars == <<x, cb, cb_size, under, xq, index, reads, xq1, index1>>
vqVars == <<X, CB, n_cb, vdim, Xq, vindex>>
splitVars == <<sX, sCB, nsplit, sdim, cbsize, qX, sindex, si, X_pos, cb_pos>>
levVars == <<r, order, la, lk, alpha, lm, r0>>
vars == <<pc, lsfVars, sqVars, vqVars, splitVars, levVars>>

\* the variables of the functions a specification does not exercise
IdleLSF ==
    /\ lsf = <<>> /\ lsf0 = <<>> /\ dim = 0 /\ NoAn = 0
    /\ n = 0 /\ m = 0 /\ k = 0 /\ change = 0 /\ fired = {} /\ last = "none"
IdleSQ ==
    /\ x = 0 /\ cb = <<>> /\ cb_size = 0 /\ under = 0
    /\ xq = 0 /\ index = 0 /\ reads = {} /\ xq1 = 0 /\ index1 = 0
IdleVQ ==
    /\ X = <<>> /\ CB = <<>> /\ n_cb = 0 /\ vdim = 0 /\ Xq = <<>> /\ vindex = 0
IdleSplit ==
    /\ sX = <<>> /\ sCB = <<>> /\ nsplit = 0 /\ sdim = <<>> /\ cbsize = <<>>
    /\ qX = <<>> /\ sindex = <<>> /\ si = 0 /\ X_pos = 0 /\ cb_pos = 0
IdleLev ==
    /\ r = <<>> /\ r0 = <<>> /\ order = 0 /\ la = <<>> /\ lk = <<>>
    /\ alpha = 0 /\ lm = 0

-----------------------------------------------------------------------------
(* Bounds of the model *)
MaxDim == 4
MaxNoAn == 2
MaxTable == 6

(* Input values of an LSF table, in units of 0.0005 rad: below minlsf,     *)
(* in range (two of them closer than eps), above maxlsf.                   *)
LsfVals == {10, 1000, 1050, 2000, 6300}

-----------------------------------------------------------------------------
(* LSF_check, helpfun.c:274-334 *)
Nit == 2
eps == 78
eps2 == 39
maxlsf == 6280
minlsf == 20

\* pos = m*dim + k
Pos == m * dim + k

\* variant: the separation test against the half gap
NeedsSepHalf(l, pos) == l[pos + 1] - l[pos] < eps2

\* if ((lsf[pos + 1] - lsf[pos]) < eps)
NeedsSep(l, pos) == l[pos + 1] - l[pos] < eps

\* tmp = lsf[pos+1]; lsf[pos+1] = lsf[pos] + eps2; lsf[pos] = lsf[pos+1] - eps2;
\* (tmp is never read; the second assignment reads the NEW lsf[pos+1])
RepairInverted(l, pos) ==
    LET l1 == [l EXCEPT ![pos + 1] = l[pos] + eps2]
    IN  [l1 EXCEPT ![pos] = l1[pos + 1] - eps2]

\* lsf[pos] -= eps2; lsf[pos+1] += eps2;
PushApart(l, pos) ==
    [l EXCEPT ![pos] = l[pos] - eps2, ![pos + 1] = l[pos + 1] + eps2]

\* the separation block of one (n, m, k) iteration: table, flag, branch taken
Separate(l, pos, ch) ==
    IF NeedsSep(l, pos)
    THEN IF l[pos + 1] < l[pos]
         THEN [lsf |-> RepairInverted(l, pos), change |-> 1, kind |-> "inv"]
         ELSE [lsf |-> PushApart(l, pos), change |-> 1, kind |-> "push"]
    ELSE [lsf |-> l, change |-> ch, kind |-> "none"]

\* variant: the clamp to minlsf without the flag
ClampMinSilent(l, pos, ch) ==
    IF l[pos] < minlsf
    THEN [lsf |-> [l EXCEPT ![pos] = minlsf], change |-> ch, kinds |-> {"min"}]
    ELSE [lsf |-> l, change |-> ch, kinds |-> {}]

\* if (lsf[pos] < minlsf) { lsf[pos] = minlsf; change = 1; }
ClampMin(l, pos, ch) ==
    IF l[pos] < minlsf
    THEN [lsf |-> [l EXCEPT ![pos] = minlsf], change |-> 1, kinds |-> {"min"}]
    ELSE [lsf |-> l, change |-> ch, kinds |-> {}]

\* if (lsf[pos] > maxlsf) { lsf[pos] = maxlsf; change = 1; }
ClampMax(l, pos, ch) ==
    IF l[pos] > maxlsf
    THEN [lsf |-> [l EXCEPT ![pos] = maxlsf], change |-> 1, kinds |-> {"max"}]
    ELSE [lsf |-> l, change |-> ch, kinds |-> {}]

\* State after construction of a call LSF_check(lsf, dim, NoAn): loop
\* counters at the first iteration, change = 0.
InitLSF ==
    /\ pc = "sep"
    /\ dim \in 2..MaxDim
    /\ NoAn \in 1..MaxNoAn
    /\ NoAn * dim <= MaxTable
    /\ lsf \in [0..(NoAn * dim - 1) -> LsfVals]
    /\ lsf0 = lsf
    /\ n = 0 /\ m = 0 /\ k = 0
    /\ change = 0
    /\ fired = {}
    /\ last = "none"
    /\ IdleSQ /\ IdleVQ /\ IdleSplit /\ IdleLev

\* lines 300-316 of one iteration
LSFSeparate ==
    /\ pc = "sep"
    /\ LET res == Separate(lsf, Pos, change)
       IN  /\ lsf' = res.lsf
           /\ change' = res.change
           /\ last' = res.kind
           /\ fired' = IF res.kind = "none" THEN fired ELSE fired \cup {res.kind}
    /\ pc' = "clamp"
    /\ UNCHANGED <<dim, NoAn, n, m, k, lsf0>>
    /\ UNCHANGED <<sqVars, vqVars, splitVars, levVars>>

\* lines 318-328 of one iteration, then the three loop headers (292-298)
LSFClamp ==
    /\ pc = "clamp"
    /\ LET lo == ClampMin(lsf, Pos, change)
           hi == ClampMax(lo.lsf, Pos, lo.change)
       IN  /\ lsf' = hi.lsf
           /\ change' = hi.change
           /\ fired' = fired \cup lo.kinds \cup hi.kinds
    /\ IF k + 1 < dim - 1
       THEN /\ k' = k + 1 /\ UNCHANGED <<m, n>> /\ pc' = "sep"
       ELSE IF m + 1 < NoAn
            THEN /\ k' = 0 /\ m' = m + 1 /\ UNCHANGED n /\ pc' = "sep"
            ELSE IF n + 1 < Nit
                 THEN /\ k' = 0 /\ m' = 0 /\ n' = n + 1 /\ pc' = "sep"
                 ELSE /\ UNCHANGED <<k, m, n>> /\ pc' = "ret"
    /\ UNCHANGED <<dim, NoAn, lsf0, last>>
    /\ UNCHANGED <<sqVars, vqVars, splitVars, levVars>>

NextLSF == LSFSeparate \/ LSFClamp

SpecLSF == InitLSF /\ [][NextLSF]_vars

-----------------------------------------------------------------------------
(* sort_sq, helpfun.c:236-268 *)

(* Bounds and input values of the scalar quantizer.  Codebook values are   *)
(* even, so that an odd x can sit exactly on the midpoint of two of them.  *)
MaxCbSize == 3
SqVals == {0, 2, 4}
XVals == (-1)..5
\* what the memory in front of the codebook may hold (cb[-1])
UnderVals == {-3, 1, 9}
\* content of the output parameters before the call
Unset == -99

\* cb[i]; an index outside 0..cb_size-1 reads the memory next to the array
CbAt(c, size, u, i) == IF i \in 0..(size - 1) THEN c[i] ELSE u

\* i = 0; while ((x > cb[i]) && i < cb_size - 1) i++;
RECURSIVE Scan(_, _, _, _)
Scan(xv, c, size, i) ==
    IF xv > c[i] /\ i < size - 1 THEN Scan(xv, c, size, i + 1) ELSE i

\* variant: the midpoint goes to the higher entry
PickGe(xv, i, hi, lo) ==
    IF 2 * xv >= hi + lo
    THEN [index |-> i, xq |-> hi]
    ELSE [index |-> i - 1, xq |-> lo]

\* variant: the lower branch stores the higher value
PickMixed(xv, i, hi, lo) ==
    IF 2 * xv > hi + lo
    THEN [index |-> i, xq |-> hi]
    ELSE [index |-> i - 1, xq |-> hi]

\* if (x > ((cb[i] + cb[i - 1])/2)) {index = i; xq = cb[i];}
\* else {index = i - 1; xq = cb[i - 1];}     (hi = cb[i], lo = cb[i - 1])
Pick(xv, i, hi, lo) ==
    IF 2 * xv > hi + lo
    THEN [index |-> i, xq |-> hi]
    ELSE [index |-> i - 1, xq |-> lo]

\* the whole function: index, xq and the set of codebook indices it reads
SortSq(xv, c, size, u) ==
    IF xv <= c[0]
    THEN [index |-> 0, xq |-> c[0], reads |-> {0}]
    ELSE LET i == Scan(xv, c, size, 0)
             p == Pick(xv, i, c[i], CbAt(c, size, u, i - 1))
         IN  [index |-> p.index, xq |-> p.xq, reads |-> (0..i) \cup {i - 1}]

Ascending(c, size) == \A j \in 0..(size - 2) : c[j] <= c[j + 1]
StrictlyAscending(c, size) == \A j \in 0..(size - 2) : c[j] < c[j + 1]

\* A caller about to quantize x against an ascending codebook.
InitSQ ==
    /\ pc = "sq1"
    /\ cb_size \in 1..MaxCbSize
    /\ cb \in [0..(cb_size - 1) -> SqVals]
    /\ Ascending(cb, cb_size)
    /\ x \in XVals
    /\ under \in UnderVals
    /\ xq = Unset /\ index = Unset /\ xq1 = Unset /\ index1 = Unset
    /\ reads = {}
    /\ IdleLSF /\ IdleVQ /\ IdleSplit /\ IdleLev

\* sort_sq(&xq, &index, x, cb, cb_size)
SQQuantize ==
    /\ pc = "sq1"
    /\ LET res == SortSq(x, cb, cb_size, under)
       IN  /\ xq' = res.xq
           /\ index' = res.index
           /\ reads' = res.reads
           /\ xq1' = res.xq
           /\ index1' = res.index
    /\ pc' = "sq2"
    /\ UNCHANGED <<x, cb, cb_size, under>>
    /\ UNCHANGED <<lsfVars, vqVars, splitVars, levVars>>

\* the caller quantizes the quantized value again: sort_sq(&xq, &index, xq, ...)
SQRequantize ==
    /\ pc = "sq2"
    /\ LET res == SortSq(xq, cb, cb_size, under)
       IN  /\ xq' = res.xq
           /\ index' = res.index
           /\ reads' = reads \cup res.reads
    /\ pc' = "sq3"
    /\ UNCHANGED <<x, cb, cb_size, under, xq1, index1>>
    /\ UNCHANGED <<lsfVars, vqVars, splitVars, levVars>>

NextSQ == SQQuantize \/ SQRequantize

SpecSQ == InitSQ /\ [][NextSQ]_vars

-----------------------------------------------------------------------------
(* vq, helpfun.c:165-203, and SplitVQ, helpfun.c:209-230 *)

(* Bounds and input values of the vector quantizers *)
MaxNcb == 3
MaxVDim == 2
MaxSplit == 2
MaxSegDim == 2
MaxSegCb == 2
MaxSplitX == 3
MaxSplitCB == 6
CbVals == {0, 2}
XvVals == {0, 1, 2}
SXVals == {0, 1}

\* mindist = FLOAT_MAX: above every distance the input values can produce
FLOAT_MAX == 1000000

\* dist = (X[0] - CB[pos])^2; for (i = 1; i < dim; i++) dist += (X[i] - CB[pos + i])^2;
\* Xa and C are the arrays the pointers X and CB point into, at xBase and cbBase
RECURSIVE DistFrom(_, _, _, _, _, _, _, _)
DistFrom(C, cbBase, Xa, xBase, pos, d, ii, dist) ==
    IF ii < d
    THEN LET tmp == Xa[xBase + ii] - C[cbBase + pos + ii]
         IN  DistFrom(C, cbBase, Xa, xBase, pos, d, ii + 1, dist + tmp * tmp)
    ELSE dist

Dist(C, cbBase, Xa, xBase, pos, d) ==
    LET d0 == Xa[xBase] - C[cbBase + pos]
    IN  DistFrom(C, cbBase, Xa, xBase, pos, d, 1, d0 * d0)

\* variant: a tie replaces the entry found so far
ImprovesOrTies(dist, mindist) == dist <= mindist

\* if (dist < mindist)
Improves(dist, mindist) == dist < mindist

\* for (j = 0; j < n_cb; j++) { ...; if (dist < mindist) {...}; pos += dim; }
RECURSIVE Search(_, _, _, _, _, _, _, _, _, _)
Search(C, cbBase, Xa, xBase, ncb, d, j, pos, mindist, minindex) ==
    IF j < ncb
    THEN LET dist == Dist(C, cbBase, Xa, xBase, pos, d)
             better == Improves(dist, mindist)
         IN  Search(C, cbBase, Xa, xBase, ncb, d, j + 1, pos + d,
                    IF better THEN dist ELSE mindist,
                    IF better THEN j ELSE minindex)
    ELSE minindex

\* vq(Xq, index, CB + cbBase, X + xBase, n_cb, dim): the index and the
\* dim values written through Xq
Vq(C, cbBase, Xa, xBase, ncb, d) ==
    LET minindex == Search(C, cbBase, Xa, xBase, ncb, d, 0, 0, FLOAT_MAX, 0)
    IN  [index |-> minindex,
         Xq |-> [ii \in 0..(d - 1) |-> C[cbBase + minindex * d + ii]]]

\* A caller about to quantize X against a codebook of n_cb vectors.  The
\* output buffer has one slot more than vq may write.
InitVQ ==
    /\ pc = "vq"
    /\ n_cb \in 1..MaxNcb
    /\ vdim \in 1..MaxVDim
    /\ CB \in [0..(n_cb * vdim - 1) -> CbVals]
    /\ X \in [0..(vdim - 1) -> XvVals]
    /\ Xq = [ii \in 0..vdim |-> Unset]
    /\ vindex = Unset
    /\ IdleLSF /\ IdleSQ /\ IdleSplit /\ IdleLev

\* vq(Xq, &index, CB, X, n_cb, dim)
VQQuantize ==
    /\ pc = "vq"
    /\ LET res == Vq(CB, 0, X, 0, n_cb, vdim)
       IN  /\ vindex' = res.index
           /\ Xq' = [ii \in DOMAIN Xq |->
                        IF ii < vdim THEN res.Xq[ii] ELSE Xq[ii]]
    /\ pc' = "vqret"
    /\ UNCHANGED <<X, CB, n_cb, vdim>>
    /\ UNCHANGED <<lsfVars, sqVars, splitVars, levVars>>

NextVQ == VQQuantize

SpecVQ == InitVQ /\ [][NextVQ]_vars

\* sum of f[0..cnt-1]
RECURSIVE SumTo(_, _)
SumTo(f, cnt) == IF cnt = 0 THEN 0 ELSE SumTo(f, cnt - 1) + f[cnt - 1]

\* A caller about to split-quantize sX: the codebook regions lie one after
\* the other in sCB, the segments one after the other in sX.  The output
\* buffers have one slot more than SplitVQ may write.
InitSplit ==
    /\ pc = "split"
    /\ nsplit \in 1..MaxSplit
    /\ sdim \in [0..(nsplit - 1) -> 1..MaxSegDim]
    /\ cbsize \in [0..(nsplit - 1) -> 1..MaxSegCb]
    /\ SumTo(sdim, nsplit) <= MaxSplitX
    /\ SumTo([s \in 0..(nsplit - 1) |-> sdim[s] * cbsize[s]], nsplit) <= MaxSplitCB
    /\ sX \in [0..(SumTo(sdim, nsplit) - 1) -> SXVals]
    /\ sCB \in [0..(SumTo([s \in 0..(nsplit - 1) |-> sdim[s] * cbsize[s]], nsplit) - 1)
                  -> CbVals]
    /\ qX = [ii \in 0..SumTo(sdim, nsplit) |-> Unset]
    /\ sindex = [s \in 0..nsplit |-> Unset]
    /\ si = 0 /\ X_pos = 0 /\ cb_pos = 0
    /\ IdleLSF /\ IdleSQ /\ IdleVQ /\ IdleLev

\* variant: the codebook offset advances by the dimension only
CbAdvanceDim(pos, d, size) == pos + d

\* cb_pos += dim[i]*cbsize[i];
CbAdvance(pos, d, size) == pos + d * size

\* one iteration of the loop of SplitVQ (lines 224-229)
SplitStep ==
    /\ pc = "split"
    /\ si < nsplit
    /\ LET res == Vq(sCB, cb_pos, sX, X_pos, cbsize[si], sdim[si])
       IN  /\ sindex' = [sindex EXCEPT ![si] = res.index]
           /\ qX' = [ii \in DOMAIN qX |->
                        IF ii \in X_pos..(X_pos + sdim[si] - 1)
                        THEN res.Xq[ii - X_pos] ELSE qX[ii]]
    /\ X_pos' = X_pos + sdim[si]
    /\ cb_pos' = CbAdvance(cb_pos, sdim[si], cbsize[si])
    /\ si' = si + 1
    /\ UNCHANGED <<pc, sX, sCB, nsplit, sdim, cbsize>>
    /\ UNCHANGED <<lsfVars, sqVars, vqVars, levVars>>

\* the loop ends: i == nsplit (si is the loop counter i)
SplitReturn ==
    /\ pc = "split"
    /\ ~(si < nsplit)
    /\ pc' = "splitret"
    /\ UNCHANGED splitVars
    /\ UNCHANGED <<lsfVars, sqVars, vqVars, levVars>>

NextSplit == SplitStep \/ SplitReturn

SpecSplit == InitSplit /\ [][NextSplit]_vars

-----------------------------------------------------------------------------
(* levdurb, helpfun.c:74-117 *)

(* A float is a signed exact rational, a signed infinity or a NaN, with    *)
(* the IEEE 754 rules for zeros, infinities and NaN; rounding and overflow *)
(* of finite values are not modelled.                                      *)
RECURSIVE GCD(_, _)
GCD(u, v) == IF v = 0 THEN u ELSE GCD(v, u % v)

Fin(sg, nu, de) ==
    LET g == GCD(nu, de) IN [c |-> "fin", s |-> sg, n |-> nu \div g, d |-> de \div g]
Inf(sg) == [c |-> "inf", s |-> sg, n |-> 0, d |-> 1]
NaN == [c |-> "nan", s |-> 1, n |-> 0, d |-> 1]
FromInt(z) == IF z < 0 THEN Fin(-1, -z, 1) ELSE Fin(1, z, 1)
Zero == FromInt(0)
One == FromInt(1)
IsZero(u) == u.c = "fin" /\ u.n = 0

FNeg(u) == IF u.c = "nan" THEN u ELSE [u EXCEPT !.s = -u.s]

FMul(u, v) ==
    IF u.c = "nan" \/ v.c = "nan" THEN NaN
    ELSE IF u.c = "inf" \/ v.c = "inf"
         THEN IF IsZero(u) \/ IsZero(v) THEN NaN ELSE Inf(u.s * v.s)
         ELSE Fin(u.s * v.s, u.n * v.n, u.d * v.d)

FDiv(u, v) ==
    IF u.c = "nan" \/ v.c = "nan" THEN NaN
    ELSE IF u.c = "inf"
         THEN IF v.c = "inf" THEN NaN ELSE Inf(u.s * v.s)
         ELSE IF v.c = "inf" THEN Fin(u.s * v.s, 0, 1)
              ELSE IF IsZero(v)
                   THEN IF IsZero(u) THEN NaN ELSE Inf(u.s * v.s)
                   ELSE Fin(u.s * v.s, u.n * v.d, u.d * v.n)

FAdd(u, v) ==
    IF u.c = "nan" \/ v.c = "nan" THEN NaN
    ELSE IF u.c = "inf"
         THEN IF v.c = "inf" /\ v.s # u.s THEN NaN ELSE u
         ELSE IF v.c = "inf" THEN v
              ELSE LET num == u.s * u.n * v.d + v.s * v.n * u.d
                   IN  IF num = 0
                       THEN Fin(IF u.s = -1 /\ v.s = -1 THEN -1 ELSE 1, 0, 1)
                       ELSE IF num < 0 THEN Fin(-1, -num, u.d * v.d)
                            ELSE Fin(1, num, u.d * v.d)

\* u < v; false when either is a NaN
FLess(u, v) ==
    /\ u.c # "nan" /\ v.c # "nan"
    /\ IF u.c = "inf" THEN u.s = -1 /\ ~(v.c = "inf" /\ v.s = -1)
       ELSE IF v.c = "inf" THEN v.s = 1
            ELSE u.s * u.n * v.d < v.s * v.n * u.d

(* Bounds and input values of levdurb.  Autocorrelations are multiples of  *)
(* EPS/2, so that 1 is a positive r[0] below EPS; a and k do not depend on *)
(* the unit.                                                               *)
MaxOrder == 2
EPS == 2
RVals == {-1, 0, 1, 2, 4}
\* what the output buffers may hold before the call
Garbage == {FromInt(7), NaN}

\* variant: the zero loop writes a[i] instead of a[i+1]
ZeroStepShifted(av, kv, ii) ==
    [a |-> [av EXCEPT ![ii] = Zero], k |-> [kv EXCEPT ![ii] = Zero]]

\* k[i] = 0; a[i+1] = 0;
ZeroStep(av, kv, ii) ==
    [a |-> [av EXCEPT ![ii + 1] = Zero], k |-> [kv EXCEPT ![ii] = Zero]]

\* for (i = 0; i < order; i++) { k[i] = 0; a[i+1] = 0; }
RECURSIVE ZeroLoop(_, _, _, _)
ZeroLoop(av, kv, ord, ii) ==
    IF ii < ord
    THEN LET z == ZeroStep(av, kv, ii) IN ZeroLoop(z.a, z.k, ord, ii + 1)
    ELSE [a |-> av, k |-> kv]

\* sum = r[m + 1]; for (i = 0; i < m; i++) sum += a[i + 1]*r[m - i];
RECURSIVE SumLoop(_, _, _, _, _)
SumLoop(av, rv, mm, ii, sum) ==
    IF ii < mm
    THEN SumLoop(av, rv, mm, ii + 1, FAdd(sum, FMul(av[ii + 1], rv[mm - ii])))
    ELSE sum

\* for (i = 0; i < m_h; i++) { sum = a[i + 1] + k[m]*a[m - i];
\*     a[m - i] += k[m]*a[i+1]; a[i + 1] = sum; }
RECURSIVE Butterfly(_, _, _, _, _)
Butterfly(av, km, mm, m_h, ii) ==
    IF ii < m_h
    THEN LET sum == FAdd(av[ii + 1], FMul(km, av[mm - ii]))
             a1 == [av EXCEPT ![mm - ii] = FAdd(av[mm - ii], FMul(km, av[ii + 1]))]
             a2 == [a1 EXCEPT ![ii + 1] = sum]
         IN  Butterfly(a2, km, mm, m_h, ii + 1)
    ELSE av

\* A caller about to solve for an LPC filter of the given order.
InitLev ==
    /\ pc = "lev"
    /\ order \in 1..MaxOrder
    /\ r \in [0..order -> {FromInt(z) : z \in RVals}]
    /\ r0 = r
    /\ \E g \in Garbage : la = [ii \in 0..order |-> g]
    /\ \E g \in Garbage : lk = [ii \in 0..(order - 1) |-> g]
    /\ alpha = Zero
    /\ lm = 0
    /\ IdleLSF /\ IdleSQ /\ IdleVQ /\ IdleSplit

\* lines 85-99: a[0] = 1, then the zero loop, or the first order of the
\* recursion
LevBegin ==
    /\ pc = "lev"
    /\ IF FLess(r[0], FromInt(EPS))
       THEN LET z == ZeroLoop([la EXCEPT ![0] = One], lk, order, 0)
            IN  /\ la' = z.a
                /\ lk' = z.k
                /\ pc' = "levret"
                /\ UNCHANGED <<alpha, lm>>
       ELSE LET k0 == FDiv(FNeg(r[1]), r[0])
            IN  /\ la' = [la EXCEPT ![0] = One, ![1] = k0]
                /\ lk' = [lk EXCEPT ![0] = k0]
                /\ alpha' = FAdd(r[0], FMul(r[1], k0))
                /\ lm' = 1
                /\ pc' = "levloop"
    /\ UNCHANGED <<r, order, r0>>
    /\ UNCHANGED <<lsfVars, sqVars, vqVars, splitVars>>

\* one iteration of the loop over m (lines 100-115)
LevOrder ==
    /\ pc = "levloop"
    /\ lm < order
    /\ LET sum == SumLoop(la, r, lm, 0, r[lm + 1])
           km == FDiv(FNeg(sum), alpha)
           a1 == Butterfly(la, km, lm, (lm + 1) \div 2, 0)
       IN  /\ lk' = [lk EXCEPT ![lm] = km]
           /\ alpha' = FAdd(alpha, FMul(km, sum))
           /\ la' = [a1 EXCEPT ![lm + 1] = km]
    /\ lm' = lm + 1
    /\ UNCHANGED <<pc, r, order, r0>>
    /\ UNCHANGED <<lsfVars, sqVars, vqVars, splitVars>>

\* the loop over m ends
LevReturn ==
    /\ pc = "levloop"
    /\ ~(lm < order)
    /\ pc' = "levret"
    /\ UNCHANGED levVars
    /\ UNCHANGED <<lsfVars, sqVars, vqVars, splitVars>>

NextLev == LevBegin \/ LevOrder \/ LevReturn

SpecLev == InitLev /\ [][NextLev]_vars

-----------------------------------------------------------------------------
Gap(l, v, j) == l[v * dim + j + 1] - l[v * dim + j]

AllSeparated ==
    \A v \in 0..(NoAn - 1) : \A j \in 0..(dim - 2) : Gap(lsf, v, j) >= eps

\* C1 (as stated): when LSF_check returns, every adjacent pair of every
\* vector is at least eps apart.
C1_AllSeparated == pc = "ret" => AllSeparated

\* C1 (amended): when LSF_check returns 0 (no repair fired), every adjacent
\* pair of every vector is at least eps apart.
C1_SeparatedWhenUnchanged == (pc = "ret" /\ change = 0) => AllSeparated

C1_Witness == pc = "ret" /\ change = 0 /\ dim = 3 /\ AllSeparated

\* C2: when LSF_check returns, every element of every vector, the last one
\* included, lies in minlsf..maxlsf.
C2_AllInRange ==
    pc = "ret" =>
        \A idx \in 0..(NoAn * dim - 1) : minlsf <= lsf[idx] /\ lsf[idx] <= maxlsf

C9_RepairedPairSeparated ==
    (pc = "clamp" /\ last # "none") =>
        /\ lsf[Pos] <= lsf[Pos + 1]
        /\ lsf[Pos + 1] - lsf[Pos] >= eps

-----------------------------------------------------------------------------
\* the smallest i with x <= cb[i], or cb_size - 1 if there is none
FirstGE(xv, c, size) ==
    IF \E j \in 0..(size - 1) : xv <= c[j]
    THEN CHOOSE j \in 0..(size - 1) :
             xv <= c[j] /\ \A h \in 0..(j - 1) : xv > c[h]
    ELSE size - 1

\* x > cb[0] sits exactly on the midpoint of the distinct neighbours
\* cb[i-1] and cb[i], and the first call has returned
AtMidpoint ==
    /\ pc = "sq2" /\ cb_size >= 2 /\ x > cb[0]
    /\ LET i == FirstGE(x, cb, cb_size)
       IN  cb[i - 1] # cb[i] /\ 2 * x = cb[i] + cb[i - 1]

\* C3 (as stated): exactly at the midpoint the higher index i is returned,
\* with xq = cb[i].
C3_MidpointHigher ==
    AtMidpoint =>
        LET i == FirstGE(x, cb, cb_size) IN index = i /\ xq = cb[i]

\* C3 (amended): exactly at the midpoint the lower index i-1 is returned,
\* with xq = cb[i-1].
C3_MidpointLower ==
    AtMidpoint =>
        LET i == FirstGE(x, cb, cb_size) IN index = i - 1 /\ xq = cb[i - 1]

C3_Witness == AtMidpoint /\ index = FirstGE(x, cb, cb_size) - 1 /\ index >= 1

\* C4 (as stated): for an ascending (not necessarily strictly) codebook of
\* at least two entries, quantizing the quantized value returns the same
\* index and the same value.
C4_RoundTrip ==
    (pc = "sq3" /\ cb_size >= 2) => (index = index1 /\ xq = xq1)

\* C4 (amended): quantizing the quantized value returns the same value and
\* the lowest index that holds it; for a strictly ascending codebook this is
\* the same index, and sort_sq(cb[j]) returns (j, cb[j]).
C4_RoundTripLowest ==
    /\ (pc = "sq3" /\ cb_size >= 2) =>
           /\ xq = xq1
           /\ index \in 0..(cb_size - 1)
           /\ cb[index] = xq1
           /\ \A j \in 0..(index - 1) : cb[j] # xq1
           /\ StrictlyAscending(cb, cb_size) => index = index1
    /\ (pc = "sq2" /\ cb_size >= 2 /\ StrictlyAscending(cb, cb_size)) =>
           \A j \in 0..(cb_size - 1) :
               x = cb[j] => (index = j /\ xq = cb[j])

C4_Witness ==
    /\ pc = "sq3" /\ cb_size = 3 /\ StrictlyAscending(cb, cb_size)
    /\ x # xq1 /\ index1 = 1 /\ index = 1 /\ xq = cb[1]

\* C10: for every cb_size >= 1, sort_sq reads the codebook only at indices
\* 0..cb_size-1, returns an index in 0..cb_size-1 and xq = cb[index].
C10_InBounds ==
    (pc = "sq2" /\ cb_size >= 1) =>
        /\ reads \subseteq 0..(cb_size - 1)
        /\ index \in 0..(cb_size - 1)
        /\ xq = cb[index]

-----------------------------------------------------------------------------
\* squared Euclidean distance of xv to entry j of a codebook c of dimension d
RECURSIVE SqDist(_, _, _, _, _)
SqDist(xv, c, j, d, cnt) ==
    IF cnt = 0 THEN 0
    ELSE SqDist(xv, c, j, d, cnt - 1)
         + (xv[cnt - 1] - c[j * d + cnt - 1]) * (xv[cnt - 1] - c[j * d + cnt - 1])

\* j is the lowest index among the entries of c nearest to xv
LowestNearest(xv, c, ncb, d, j) ==
    /\ j \in 0..(ncb - 1)
    /\ \A h \in 0..(ncb - 1) : SqDist(xv, c, j, d, d) <= SqDist(xv, c, h, d, d)
    /\ \A h \in 0..(j - 1) : SqDist(xv, c, h, d, d) > SqDist(xv, c, j, d, d)

EntryEquals(xv, c, j, d) == \A ii \in 0..(d - 1) : c[j * d + ii] = xv[ii]

\* C5: vq returns the lowest index among the entries at minimal squared
\* Euclidean distance and copies that entry to Xq; when X equals some entry,
\* the index is the lowest such entry and Xq = X.
C5_LowestNearest ==
    pc = "vqret" =>
        /\ LowestNearest(X, CB, n_cb, vdim, vindex)
        /\ \A ii \in 0..(vdim - 1) : Xq[ii] = CB[vindex * vdim + ii]
        /\ Xq[vdim] = Unset
        /\ (\E j \in 0..(n_cb - 1) : EntryEquals(X, CB, j, vdim)) =>
               /\ EntryEquals(X, CB, vindex, vdim)
               /\ \A h \in 0..(vindex - 1) : ~EntryEquals(X, CB, h, vdim)
               /\ \A ii \in 0..(vdim - 1) : Xq[ii] = X[ii]

C5_Witness ==
    /\ pc = "vqret" /\ n_cb = 3 /\ vdim = 2 /\ vindex = 1
    /\ SqDist(X, CB, 1, vdim, vdim) = SqDist(X, CB, 2, vdim, vdim)
    /\ SqDist(X, CB, 1, vdim, vdim) > 0

\* offsets of segment s: sum of dim[j], and of dim[j]*cbsize[j], over j < s
Xoff(s) == SumTo(sdim, s)
CBoff(s) == SumTo([j \in 0..(nsplit - 1) |-> sdim[j] * cbsize[j]], s)
SegX(s) == [ii \in 0..(sdim[s] - 1) |-> sX[Xoff(s) + ii]]
SegCB(s) == [ii \in 0..(sdim[s] * cbsize[s] - 1) |-> sCB[CBoff(s) + ii]]

\* C6: on return of SplitVQ, index[s] and segment s of qX are what vq
\* returns for segment s of X alone against codebook region s alone;
\* exactly nsplit indices are written and the segments make up all of qX.
C6_SplitIsSegmentwise ==
    pc = "splitret" =>
        /\ si = nsplit
        /\ \A s \in 0..(nsplit - 1) :
               LET seg == Vq(SegCB(s), 0, SegX(s), 0, cbsize[s], sdim[s])
               IN  /\ sindex[s] = seg.index
                   /\ \A ii \in 0..(sdim[s] - 1) : qX[Xoff(s) + ii] = seg.Xq[ii]
        /\ sindex[nsplit] = Unset
        /\ qX[Xoff(nsplit)] = Unset
        /\ \A ii \in 0..(Xoff(nsplit) - 1) : qX[ii] # Unset

C6_Witness ==
    /\ pc = "splitret" /\ nsplit = 2 /\ sdim[0] = 1 /\ cbsize[0] = 2
    /\ sdim[1] = 2 /\ cbsize[1] = 2 /\ sindex[0] = 1 /\ sindex[1] = 1
    /\ SegCB(0) # SegCB(1)

-----------------------------------------------------------------------------
\* C8: when r[0] < EPS (r[0] <= 0 included), levdurb returns k[i] = 0 for
\* i in 0..order-1 and a = [1, 0, ..., 0], and r is what it was.
C8_DegenerateIsFlat ==
    (pc = "levret" /\ FLess(r0[0], FromInt(EPS))) =>
        /\ \A ii \in 0..(order - 1) : lk[ii] = Zero
        /\ la[0] = One
        /\ \A ii \in 1..order : la[ii] = Zero
        /\ DOMAIN la = 0..order /\ DOMAIN lk = 0..(order - 1)
        /\ r = r0

C8_Witness ==
    /\ pc = "levret" /\ order = 2
    /\ r0[0] = FromInt(1) /\ r0[1] = FromInt(4)
    /\ la[2] = Zero /\ lk[1] = Zero

====
